---------------------------- MODULE Spec2Model ----------------------------
(***************************************************************************)
(* Model of the PDF outline extractor: the two scripts process_pdfs.py and *)
(* outline_extractor.py.  Both run the same pipeline                       *)
(*   extract_and_group_lines -> extract_title -> find_headings ->          *)
(*   finalize_outline                                                      *)
(* inside process_single_pdf, which main calls once per input file.        *)
(*                                                                         *)
(* A text is a sequence of characters; a character is a one-character      *)
(* string, or "U+XXXX" for a code point outside ASCII, or "TAB".           *)
(* Font sizes are integers in tenths of a point; coordinates are integers. *)
(***************************************************************************)
EXTENDS Integers, Sequences, FiniteSets, TLC

\* ------------------------------------------------------------------------
\* Character classes of Python's re and str
\* ------------------------------------------------------------------------

AsciiDigits == {"0", "1", "2", "3", "4", "5", "6", "7", "8", "9"}

FullWidthDigits ==
    {"U+FF10", "U+FF11", "U+FF12", "U+FF13", "U+FF14",
     "U+FF15", "U+FF16", "U+FF17", "U+FF18", "U+FF19"}

DevanagariDigits ==
    {"U+0966", "U+0967", "U+0968", "U+0969", "U+096A",
     "U+096B", "U+096C", "U+096D", "U+096E", "U+096F"}

ArabicIndicDigits ==
    {"U+0660", "U+0661", "U+0662", "U+0663", "U+0664",
     "U+0665", "U+0666", "U+0667", "U+0668", "U+0669"}

\* [0-9\uFF10-\uFF19\u0966-\u096F] of process_pdfs.py
ScriptDigits == AsciiDigits \cup FullWidthDigits \cup DevanagariDigits

\* \d of a str pattern: every Unicode decimal digit (the blocks used here)
UnicodeDigits == ScriptDigits \cup ArabicIndicDigits

\* [.\\uFF0E\u3001] of process_pdfs.py
Separators == {".", "U+FF0E", "U+3001"}

\* \s of a str pattern, and what str.strip() and str.split() remove
Whitespace == {" ", "TAB", "U+3000"}

UpperLetters ==
    <<"A", "B", "C", "D", "E", "F", "G", "H", "I", "J", "K", "L", "M",
      "N", "O", "P", "Q", "R", "S", "T", "U", "V", "W", "X", "Y", "Z">>

LowerLetters ==
    <<"a", "b", "c", "d", "e", "f", "g", "h", "i", "j", "k", "l", "m",
      "n", "o", "p", "q", "r", "s", "t", "u", "v", "w", "x", "y", "z">>

\* [A-Z]
AsciiUpper == {UpperLetters[i] : i \in DOMAIN UpperLetters}

\* str.lower() on one character
LowerChar(c) ==
    IF c \in AsciiUpper
    THEN LowerLetters[CHOOSE i \in DOMAIN UpperLetters : UpperLetters[i] = c]
    ELSE c

\* str.lower()
Lower(text) == [i \in DOMAIN text |-> LowerChar(text[i])]

\* ------------------------------------------------------------------------
\* String helpers
\* ------------------------------------------------------------------------

\* first position >= i of text whose character is not in class (Len+1 if none)
RECURSIVE SkipWhile(_, _, _)
SkipWhile(text, i, class) ==
    IF i <= Len(text) /\ text[i] \in class
    THEN SkipWhile(text, i + 1, class)
    ELSE i

\* the literal lit occurs in text at position i
LiteralAt(text, i, lit) ==
    /\ i >= 1
    /\ i + Len(lit) - 1 <= Len(text)
    /\ \A k \in DOMAIN lit : text[i + k - 1] = lit[k]

\* lit in text
Contains(text, lit) == \E i \in 1..Len(text) : LiteralAt(text, i, lit)

\* str.strip()
RECURSIVE LStrip(_)
LStrip(text) ==
    IF text # <<>> /\ Head(text) \in Whitespace THEN LStrip(Tail(text)) ELSE text

RECURSIVE RStrip(_)
RStrip(text) ==
    IF text # <<>> /\ text[Len(text)] \in Whitespace
    THEN RStrip(SubSeq(text, 1, Len(text) - 1))
    ELSE text

Strip(text) == RStrip(LStrip(text))

\* len(text.split()): the number of maximal runs of non-whitespace
WordCount(text) ==
    Cardinality({i \in DOMAIN text :
        /\ text[i] \notin Whitespace
        /\ (i = 1 \/ text[i - 1] \in Whitespace)})

\* re.sub(r'\s+', ' ', text): every run of whitespace becomes one space
RECURSIVE CollapseWhitespace(_)
CollapseWhitespace(text) ==
    IF text = <<>> THEN <<>>
    ELSE IF Head(text) \in Whitespace
         THEN <<" ">> \o CollapseWhitespace(LStrip(text))
         ELSE <<Head(text)>> \o CollapseWhitespace(Tail(text))

\* re.sub(r'\s+', ' ', text).strip()
CleanText(text) == Strip(CollapseWhitespace(text))

\* text.replace(old, new), leftmost non-overlapping occurrences
RECURSIVE Replace(_, _, _)
Replace(text, old, new) ==
    IF text = <<>> THEN <<>>
    ELSE IF LiteralAt(text, 1, old)
         THEN new \o Replace(SubSeq(text, Len(old) + 1, Len(text)), old, new)
         ELSE <<Head(text)>> \o Replace(Tail(text), old, new)

\* sep.join(texts)
RECURSIVE Join(_, _)
Join(texts, sep) ==
    IF texts = <<>> THEN <<>>
    ELSE IF Len(texts) = 1 THEN texts[1]
    ELSE texts[1] \o sep \o Join(Tail(texts), sep)

\* ------------------------------------------------------------------------
\* find_headings of process_pdfs.py
\* ------------------------------------------------------------------------

\* ^([0-9\uFF10-\uFF19\u0966-\u096F]+)[.\\uFF0E\u3001]\s
StructuralH1(text) ==
    LET j == SkipWhile(text, 1, ScriptDigits)
    IN  /\ j > 1
        /\ j + 1 <= Len(text)
        /\ text[j] \in Separators
        /\ text[j + 1] \in Whitespace

\* ^([0-9\uFF10-\uFF19\u0966-\u096F]+\.[0-9\uFF10-\uFF19\u0966-\u096F]+)\s
StructuralH2(text) ==
    LET j == SkipWhile(text, 1, ScriptDigits)
        k == SkipWhile(text, j + 1, ScriptDigits)
    IN  /\ j > 1
        /\ j <= Len(text) /\ text[j] = "."
        /\ k > j + 1
        /\ k <= Len(text) /\ text[k] \in Whitespace

\* ^([0-9\uFF10-\uFF19\u0966-\u096F]+\.[0-9\uFF10-\uFF19\u0966-\u096F]+\.[0-9\uFF10-\uFF19\u0966-\u096F]+)\s
StructuralH3(text) ==
    LET j == SkipWhile(text, 1, ScriptDigits)
        k == SkipWhile(text, j + 1, ScriptDigits)
        m == SkipWhile(text, k + 1, ScriptDigits)
    IN  /\ j > 1
        /\ j <= Len(text) /\ text[j] = "."
        /\ k > j + 1
        /\ k <= Len(text) /\ text[k] = "."
        /\ m > k + 1
        /\ m <= Len(text) /\ text[m] \in Whitespace

\* the structural_patterns list, in its order
structural_patterns(text) ==
    <<[matches |-> StructuralH1(text), level |-> "H1"],
      [matches |-> StructuralH2(text), level |-> "H2"],
      [matches |-> StructuralH3(text), level |-> "H3"]>>

\* the special_h1s set of process_pdfs.py
special_h1s ==
    {<<"R", "e", "v", "i", "s", "i", "o", "n", " ", "H", "i", "s", "t", "o", "r", "y">>,
     <<"T", "a", "b", "l", "e", " ", "o", "f", " ", "C", "o", "n", "t", "e", "n", "t", "s">>,
     <<"A", "c", "k", "n", "o", "w", "l", "e", "d", "g", "e", "m", "e", "n", "t", "s">>,
     <<"R", "e", "f", "e", "r", "e", "n", "c", "e", "s">>,
     <<"U+6539", "U+8A02", "U+5C65", "U+6B74">>,
     <<"U+76EE", "U+6B21">>,
     <<"U+8B1D", "U+8F9E">>,
     <<"U+53C2", "U+8003", "U+6587", "U+732E">>,
     <<"U+4FEE", "U+8BA2", "U+5386", "U+53F2">>,
     <<"U+76EE", "U+5F55">>,
     <<"U+81F4", "U+8C22">>,
     <<"U+0938", "U+0902", "U+0936", "U+094B", "U+0927", "U+0928", " ",
       "U+0907", "U+0924", "U+093F", "U+0939", "U+093E", "U+0938">>,
     <<"U+0935", "U+093F", "U+0937", "U+092F", "-", "U+0938", "U+0942", "U+091A", "U+0940">>,
     <<"U+0906", "U+092D", "U+093E", "U+0930">>,
     <<"U+0938", "U+0902", "U+0926", "U+0930", "U+094D", "U+092D">>}

\* '....' in text
HasLeaderDots(text) == Contains(text, <<".", ".", ".", ".">>)

\* re.match(r'^\d\.\d+\s+\d{1,2}\s+[A-Z]{3,}', text)
RevisionRow(text) ==
    LET j == SkipWhile(text, 3, UnicodeDigits)
        k == SkipWhile(text, j, Whitespace)
        m == SkipWhile(text, k, UnicodeDigits)
        n == SkipWhile(text, m, Whitespace)
    IN  /\ Len(text) >= 2
        /\ text[1] \in UnicodeDigits
        /\ text[2] = "."
        /\ j > 3
        /\ k > j
        /\ m - k \in {1, 2}
        /\ n > m
        /\ n + 2 <= Len(text)
        /\ \A q \in n..(n + 2) : text[q] \in AsciiUpper

\* Rule 0: negative filters
NegativeFilter(text) == HasLeaderDots(text) \/ RevisionRow(text)

\* abs(bbox[0] - left_margin) < 15
WithinMargin(line, left_margin) ==
    LET d == line.bbox[1] - left_margin
    IN  (IF d < 0 THEN -d ELSE d) < 15

\* Rule 1: the first pattern that matches and lies at the margin
RECURSIVE StructuralFrom(_, _, _)
StructuralFrom(line, left_margin, i) ==
    LET pats == structural_patterns(line.text)
    IN  IF i > Len(pats) THEN "none"
        ELSE IF pats[i].matches /\ WithinMargin(line, left_margin)
             THEN pats[i].level
             ELSE StructuralFrom(line, left_margin, i + 1)

StructuralRule(line, profile) == StructuralFrom(line, profile.left_margin, 1)

\* Rule 2 without its style gate
KeywordRuleUngated(line, profile) ==
    IF Strip(line.text) \in special_h1s THEN "H1" ELSE "none"

\* Rule 2: keyword headings, gated on style
KeywordRule(line, profile) ==
    IF /\ Strip(line.text) \in special_h1s
       /\ (line.is_bold \/ line.font_size > profile.baseline_font_size)
    THEN "H1"
    ELSE "none"

\* the body of the loop over lines: the level one line gets, or "none"
ClassifyLine(line, profile) ==
    IF NegativeFilter(line.text) THEN "none"
    ELSE IF StructuralRule(line, profile) # "none" THEN StructuralRule(line, profile)
    ELSE KeywordRule(line, profile)

WithLevel(line, level) ==
    [text |-> line.text, font_size |-> line.font_size, is_bold |-> line.is_bold,
     page |-> line.page, bbox |-> line.bbox, level |-> level]

RECURSIVE find_headings_pp(_, _)
find_headings_pp(lines, profile) ==
    IF lines = <<>> THEN <<>>
    ELSE LET level == ClassifyLine(Head(lines), profile)
             rest == find_headings_pp(Tail(lines), profile)
         IN  IF level = "none" THEN rest
             ELSE <<WithLevel(Head(lines), level)>> \o rest

\* ------------------------------------------------------------------------
\* find_headings of outline_extractor.py
\* ------------------------------------------------------------------------

\* re.match(r'^\d{1,2} [A-Z]{3,}', text)
DateJunk(text) ==
    LET j == SkipWhile(text, 1, UnicodeDigits)
        OneOrTwo(d) ==
            /\ d + 3 <= Len(text)
            /\ text[d] = " "
            /\ \A q \in (d + 1)..(d + 3) : text[q] \in AsciiUpper
    IN  /\ j - 1 \in {1, 2}
        /\ OneOrTwo(j)

\* re.match(r'^page\s+\d+\s+of\s+\d+', text.lower())
PageFooter(text) ==
    LET t == Lower(text)
        a == 5
        b == SkipWhile(t, a, Whitespace)
        c == SkipWhile(t, b, UnicodeDigits)
        d == SkipWhile(t, c, Whitespace)
        e == SkipWhile(t, d + 2, Whitespace)
    IN  /\ LiteralAt(t, 1, <<"p", "a", "g", "e">>)
        /\ b > a
        /\ c > b
        /\ d > c
        /\ LiteralAt(t, d, <<"o", "f">>)
        /\ e > d + 2
        /\ e <= Len(t) /\ t[e] \in UnicodeDigits

\* the end of (\.\d+)* from position j, and the number of '.' consumed
RECURSIVE MoreSegments(_, _, _)
MoreSegments(text, j, dots) ==
    LET k == SkipWhile(text, j + 1, UnicodeDigits)
    IN  IF j <= Len(text) /\ text[j] = "." /\ k > j + 1
        THEN MoreSegments(text, k, dots + 1)
        ELSE <<j, dots>>

\* re.match(r'^(\d+(\.\d+)*)\s+.+', text): 0 when there is no match, else
\* group(1).count('.') + 1
NumberedLevel(text) ==
    LET d == SkipWhile(text, 1, UnicodeDigits)
        r == MoreSegments(text, d, 0)
        j == r[1]
        k == SkipWhile(text, j, Whitespace)
    IN  IF d > 1 /\ k > j /\ (k <= Len(text) \/ k - j >= 2)
        THEN r[2] + 1
        ELSE 0

\* ^<word>\s+\d+
WordThenNumber(text, word) ==
    LET j == Len(word) + 1
        k == SkipWhile(text, j, Whitespace)
    IN  /\ LiteralAt(text, 1, word)
        /\ k > j
        /\ k <= Len(text) /\ text[k] \in UnicodeDigits

\* ^\u7B2C\d+<mark>
IdeographicNumber(text, mark) ==
    LET k == SkipWhile(text, 2, UnicodeDigits)
    IN  /\ LiteralAt(text, 1, <<"U+7B2C">>)
        /\ k > 2
        /\ k <= Len(text) /\ text[k] = mark

\* the common_section_prefixes list
common_section_prefixes(text) ==
    \/ WordThenNumber(text, <<"C", "h", "a", "p", "t", "e", "r">>)
    \/ WordThenNumber(text, <<"S", "e", "c", "t", "i", "o", "n">>)
    \/ WordThenNumber(text, <<"C", "a", "p", "U+00ED", "t", "u", "l", "o">>)
    \/ WordThenNumber(text, <<"U+0905", "U+0927", "U+094D", "U+092F", "U+093E", "U+092F">>)
    \/ WordThenNumber(text, <<"U+092A", "U+094D", "U+0930", "U+0915", "U+0930", "U+0923">>)
    \/ IdeographicNumber(text, "U+7AE0")
    \/ IdeographicNumber(text, "U+8282")

\* the noise filter without the page-footer pattern
IsNoiseWithoutFooter(text) ==
    \/ Len(text) < 3
    \/ WordCount(text) > 20
    \/ DateJunk(text)

\* the noise filter and the junk patterns at the top of is_strong_heading
IsNoise(text) ==
    \/ Len(text) < 3
    \/ WordCount(text) > 20
    \/ DateJunk(text)
    \/ PageFooter(text)

\* the format-based fallback
FormatFallback(text, line, baseline_size) ==
    /\ 10 * line.font_size > 14 * baseline_size
    /\ line.is_bold
    /\ WordCount(text) <= 10

\* is_strong_heading(line): "none" stands for False
is_strong_heading(line, baseline_size) ==
    LET text == Strip(line.text)
        level == NumberedLevel(text)
    IN  IF IsNoise(text) THEN "none"
        ELSE IF level \in 1..3 THEN <<"H1", "H2", "H3">>[level]
        ELSE IF common_section_prefixes(text) THEN "H1"
        ELSE IF FormatFallback(text, line, baseline_size) THEN "H2"
        ELSE "none"

\* the strong_H1s list
strong_H1s ==
    {<<"R", "e", "v", "i", "s", "i", "o", "n", " ", "H", "i", "s", "t", "o", "r", "y">>,
     <<"T", "a", "b", "l", "e", " ", "o", "f", " ", "C", "o", "n", "t", "e", "n", "t", "s">>,
     <<"A", "c", "k", "n", "o", "w", "l", "e", "d", "g", "e", "m", "e", "n", "t", "s">>,
     <<"R", "e", "f", "e", "r", "e", "n", "c", "e", "s">>}

\* the first loop: the special H1 override
RECURSIVE SpecialOverride(_)
SpecialOverride(lines) ==
    IF lines = <<>> THEN <<>>
    ELSE IF Strip(Head(lines).text) \in strong_H1s
         THEN <<WithLevel(Head(lines), "H1")>> \o SpecialOverride(Tail(lines))
         ELSE SpecialOverride(Tail(lines))

\* the second loop: regular heading detection
RECURSIVE RegularDetection(_, _)
RegularDetection(lines, baseline_size) ==
    IF lines = <<>> THEN <<>>
    ELSE LET line == Head(lines)
             level == is_strong_heading(line, baseline_size)
             rest == RegularDetection(Tail(lines), baseline_size)
         IN  IF Strip(line.text) \in strong_H1s \/ level = "none" THEN rest
             ELSE <<WithLevel(line, level)>> \o rest

find_headings_oe(lines, profile) ==
    SpecialOverride(lines) \o RegularDetection(lines, profile.baseline_font_size)

\* ------------------------------------------------------------------------
\* sorted(), list.sort() and Counter.most_common
\* ------------------------------------------------------------------------

\* tuple comparison a < b
RECURSIVE LexLess(_, _)
LexLess(a, b) ==
    IF a = <<>> \/ b = <<>> THEN a = <<>> /\ b # <<>>
    ELSE IF Head(a) # Head(b) THEN Head(a) < Head(b)
    ELSE LexLess(Tail(a), Tail(b))

\* p goes in front of the first element whose key is greater: equal keys
\* keep their order, as in Python's stable sort
RECURSIVE InsertByKey(_, _)
InsertByKey(sorted, p) ==
    IF sorted = <<>> THEN <<p>>
    ELSE IF LexLess(p.key, Head(sorted).key) THEN <<p>> \o sorted
    ELSE <<Head(sorted)>> \o InsertByKey(Tail(sorted), p)

\* a sequence of [key, item] records, sorted by key
RECURSIVE StableSort(_)
StableSort(pairs) ==
    IF pairs = <<>> THEN <<>>
    ELSE InsertByKey(StableSort(SubSeq(pairs, 1, Len(pairs) - 1)), pairs[Len(pairs)])

Items(pairs) == [i \in DOMAIN pairs |-> pairs[i].item]

Occurrences(seq, v) == Cardinality({i \in DOMAIN seq : seq[i] = v})

\* Counter(seq).most_common(1)[0][0]: the most frequent value, the one seen
\* first among equally frequent ones
MostCommon(seq) ==
    seq[CHOOSE i \in DOMAIN seq :
            /\ \A j \in DOMAIN seq : Occurrences(seq, seq[j]) <= Occurrences(seq, seq[i])
            /\ \A j \in 1..(i - 1) : Occurrences(seq, seq[j]) < Occurrences(seq, seq[i])]

\* ------------------------------------------------------------------------
\* Stage 1: extract_and_group_lines
\* A document is [page_count, raw]: raw is the sequence of the text lines
\* the parser yields, page after page, each [page, bbox, spans], a span
\* being [text, size, bold, x0].
\* ------------------------------------------------------------------------

LineKey(raw_line) == <<raw_line.page, raw_line.bbox[2]>>

\* the lines dict: one entry per key, with the bbox of the first line seen
\* at that key and the spans of all of them
RECURSIVE ConcatSpans(_)
ConcatSpans(raw) ==
    IF raw = <<>> THEN <<>> ELSE Head(raw).spans \o ConcatSpans(Tail(raw))

GroupAt(raw, key) ==
    LET members == SelectSeq(raw, LAMBDA r : LineKey(r) = key)
    IN  [spans |-> ConcatSpans(members), bbox |-> members[1].bbox, page |-> members[1].page]

FirstAtKey(raw) ==
    SelectSeq([i \in DOMAIN raw |-> [key |-> LineKey(raw[i]), item |-> i]],
              LAMBDA p : \A j \in 1..(p.item - 1) : LineKey(raw[j]) # p.key)

\* sorted(lines.keys())
SortedKeys(raw) ==
    LET s == StableSort(FirstAtKey(raw)) IN [i \in DOMAIN s |-> s[i].key]

\* sorted(line_data['spans'], key=lambda s: s['bbox'][0])
SortedSpans(spans) ==
    Items(StableSort([i \in DOMAIN spans |-> [key |-> <<spans[i].x0>>, item |-> spans[i]]]))

SpanTexts(spans) == [i \in DOMAIN spans |-> spans[i].text]

\* the logical lines; sep is "" in process_pdfs.py and " " in
\* outline_extractor.py
RECURSIVE LogicalLinesFrom(_, _, _)
LogicalLinesFrom(raw, keys, sep) ==
    IF keys = <<>> THEN <<>>
    ELSE LET line_data == GroupAt(raw, Head(keys))
             line_spans == SortedSpans(line_data.spans)
             full_text == Strip(Join(SpanTexts(line_spans), sep))
             rest == LogicalLinesFrom(raw, Tail(keys), sep)
         IN  IF full_text = <<>> THEN rest
             ELSE <<[text |-> full_text,
                     font_size |-> line_spans[1].size,
                     is_bold |-> line_spans[1].bold,
                     page |-> line_data.page,
                     bbox |-> line_data.bbox]>> \o rest

logical_lines_pp(doc) == LogicalLinesFrom(doc.raw, SortedKeys(doc.raw), <<>>)

logical_lines_oe(doc) == LogicalLinesFrom(doc.raw, SortedKeys(doc.raw), <<" ">>)

page_0_lines(lines) == SelectSeq(lines, LAMBDA l : l.page = 0)

FontSizesLongerThan(lines, n) ==
    LET long == SelectSeq(lines, LAMBDA l : Len(l.text) > n)
    IN  [i \in DOMAIN long |-> long[i].font_size]

LeftMarginsLongerThan(lines, n) ==
    LET long == SelectSeq(lines, LAMBDA l : Len(l.text) > n)
    IN  [i \in DOMAIN long |-> long[i].bbox[1]]

\* profile['page_offset'] of process_pdfs.py
page_offset_pp(lines, page_count) ==
    IF Len(page_0_lines(lines)) < 10 /\ page_count > 1 THEN 1 ELSE 0

\* profile['page_offset'] of outline_extractor.py
page_offset_oe(lines, page_count) ==
    IF Len(page_0_lines(lines)) < 5 THEN 1 ELSE 0

profile_pp(lines, page_count) ==
    LET font_sizes == FontSizesLongerThan(lines, 15)
        left_margins == LeftMarginsLongerThan(lines, 20)
    IN  [baseline_font_size |-> IF font_sizes # <<>> THEN MostCommon(font_sizes) ELSE 100,
         page_offset |-> page_offset_pp(lines, page_count),
         left_margin |-> IF left_margins # <<>> THEN MostCommon(left_margins) ELSE 72]

profile_oe(lines, page_count) ==
    LET font_sizes == FontSizesLongerThan(lines, 20)
    IN  [baseline_font_size |-> IF font_sizes # <<>> THEN MostCommon(font_sizes) ELSE 120,
         page_offset |-> page_offset_oe(lines, page_count)]

\* ------------------------------------------------------------------------
\* Stage 2: extract_title
\* ------------------------------------------------------------------------

MaxOf(S) == CHOOSE m \in S : \A x \in S : x <= m

Abs(d) == IF d < 0 THEN -d ELSE d

LineTexts(lines) == [i \in DOMAIN lines |-> lines[i].text]

extract_title_pp(lines) ==
    LET p0 == page_0_lines(lines)
        max_font_size == MaxOf({p0[i].font_size : i \in DOMAIN p0})
        title_lines == SelectSeq(p0, LAMBDA l : Abs(l.font_size - max_font_size) < 5)
        sorted == Items(StableSort([i \in DOMAIN title_lines |->
                     [key |-> <<title_lines[i].bbox[2], title_lines[i].bbox[1]>>,
                      item |-> title_lines[i]]]))
    IN  IF p0 = <<>> THEN <<>>
        ELSE Strip(Join(LineTexts(sorted), <<>>))

extract_title_oe(lines) ==
    LET p0 == page_0_lines(lines)
        max_y == MaxOf({p0[i].bbox[4] : i \in DOMAIN p0})
        top_lines == SelectSeq(p0, LAMBDA l : 10 * l.bbox[2] < 4 * max_y)
        max_font == MaxOf({top_lines[i].font_size : i \in DOMAIN top_lines})
        candidate_lines == SelectSeq(top_lines, LAMBDA l : Abs(l.font_size - max_font) <= 5)
        stripped == [i \in DOMAIN candidate_lines |-> Strip(candidate_lines[i].text)]
    IN  IF p0 = <<>> THEN <<>>
        ELSE IF top_lines = <<>> THEN <<>>
        ELSE CleanText(Join(stripped, <<" ">>))

\* ------------------------------------------------------------------------
\* Stage 3: finalize_outline
\* ------------------------------------------------------------------------

\* headings.sort(key=lambda h: (h['page'], h['bbox'][1]))
SortHeadings(headings) ==
    Items(StableSort([i \in DOMAIN headings |->
        [key |-> <<headings[i].page, headings[i].bbox[2]>>, item |-> headings[i]]]))

\* re.match(r'^[0-9\uFF10-\uFF19\u0966-\u096F]+[.\\uFF0E\u3001]\s*', text), and the same without \s*
NumberedStub(text) ==
    LET j == SkipWhile(text, 1, ScriptDigits)
    IN  j > 1 /\ j <= Len(text) /\ text[j] \in Separators

\* re.match(r'^\d\.\s', text)
OneDigitStub(text) ==
    /\ Len(text) >= 3
    /\ text[1] \in UnicodeDigits
    /\ text[2] = "."
    /\ text[3] \in Whitespace

\* re.match(r'^\d\.', text)
OneDigitDot(text) ==
    /\ Len(text) >= 2
    /\ text[1] \in UnicodeDigits
    /\ text[2] = "."

ShouldMerge_pp(current, nxt) ==
    /\ current.page = nxt.page
    /\ NumberedStub(current.text)
    /\ ~NumberedStub(nxt.text)

ShouldMerge_oe(current, nxt) ==
    /\ current.page = nxt.page
    /\ OneDigitStub(current.text)
    /\ ~OneDigitDot(nxt.text)

\* f"{current['text'].strip()} {nxt['text'].strip()}"
MergedText_pp(current, nxt) == Strip(current.text) \o <<" ">> \o Strip(nxt.text)

\* f"{current['text'].replace(' - ', ' \u2013 ')}{nxt['text']}"
MergedText_oe(current, nxt) ==
    Replace(current.text, <<" ", "-", " ">>, <<" ", "U+2013", " ">>) \o nxt.text

\* the while loop over the sorted headings, from index i
RECURSIVE MergeFrom_pp(_, _)
MergeFrom_pp(headings, i) ==
    IF i > Len(headings) THEN <<>>
    ELSE IF i + 1 <= Len(headings) /\ ShouldMerge_pp(headings[i], headings[i + 1])
         THEN <<[headings[i] EXCEPT !.text = MergedText_pp(headings[i], headings[i + 1])]>>
              \o MergeFrom_pp(headings, i + 2)
         ELSE <<headings[i]>> \o MergeFrom_pp(headings, i + 1)

RECURSIVE MergeFrom_oe(_, _)
MergeFrom_oe(headings, i) ==
    IF i > Len(headings) THEN <<>>
    ELSE IF i + 1 <= Len(headings) /\ ShouldMerge_oe(headings[i], headings[i + 1])
         THEN <<[headings[i] EXCEPT !.text = MergedText_oe(headings[i], headings[i + 1])]>>
              \o MergeFrom_oe(headings, i + 2)
         ELSE <<headings[i]>> \o MergeFrom_oe(headings, i + 1)

\* final_page = item['page'] + 1 - page_offset
final_page(item, page_offset) == item.page + 1 - page_offset

\* key = (clean_text.lower(), final_page)
DedupKey(item, page_offset) ==
    <<Lower(CleanText(item.text)), final_page(item, page_offset)>>

\* the entry appended to final_outline
OutlineEntry(item, page_offset) ==
    [level |-> item.level,
     text |-> CleanText(item.text) \o <<" ">>,
     page |-> final_page(item, page_offset)]

\* the loop over merged_headings without seen.add(key)
RECURSIVE DeduplicateNoSeen(_, _, _)
DeduplicateNoSeen(merged, seen, page_offset) ==
    IF merged = <<>> THEN <<>>
    ELSE <<OutlineEntry(Head(merged), page_offset)>>
         \o DeduplicateNoSeen(Tail(merged), seen, page_offset)

\* the loop over merged_headings with the seen set
RECURSIVE Deduplicate(_, _, _)
Deduplicate(merged, seen, page_offset) ==
    IF merged = <<>> THEN <<>>
    ELSE LET key == DedupKey(Head(merged), page_offset)
         IN  IF key \notin seen
             THEN <<OutlineEntry(Head(merged), page_offset)>>
                  \o Deduplicate(Tail(merged), seen \cup {key}, page_offset)
             ELSE Deduplicate(Tail(merged), seen, page_offset)

merged_headings_pp(headings) == MergeFrom_pp(SortHeadings(headings), 1)

merged_headings_oe(headings) == MergeFrom_oe(SortHeadings(headings), 1)

finalize_outline_pp(headings, profile) ==
    IF headings = <<>> THEN <<>>
    ELSE Deduplicate(merged_headings_pp(headings), {}, profile.page_offset)

finalize_outline_oe(headings, profile) ==
    IF headings = <<>> THEN <<>>
    ELSE Deduplicate(merged_headings_oe(headings), {}, profile.page_offset)

\* ------------------------------------------------------------------------
\* The two scripts behind one interface
\* ------------------------------------------------------------------------

Scripts == {"process_pdfs", "outline_extractor"}

extract_and_group_lines(s, doc) ==
    IF s = "process_pdfs"
    THEN [lines |-> logical_lines_pp(doc),
          profile |-> profile_pp(logical_lines_pp(doc), doc.page_count)]
    ELSE [lines |-> logical_lines_oe(doc),
          profile |-> profile_oe(logical_lines_oe(doc), doc.page_count)]

extract_title(s, ls) ==
    IF s = "process_pdfs" THEN extract_title_pp(ls) ELSE extract_title_oe(ls)

find_headings(s, ls, prof) ==
    IF s = "process_pdfs" THEN find_headings_pp(ls, prof) ELSE find_headings_oe(ls, prof)

finalize_outline(s, hs, prof) ==
    IF s = "process_pdfs" THEN finalize_outline_pp(hs, prof) ELSE finalize_outline_oe(hs, prof)

\* the record of the except branch
EmptyResult == [title |-> <<>>, outline |-> <<>>]

\* the record of the try branch: "title": title.strip() + "  "
SuccessResult(t, o) == [title |-> Strip(t) \o <<" ", " ">>, outline |-> o]

NoProfile == [baseline_font_size |-> 0, page_offset |-> 0]

\* ------------------------------------------------------------------------
\* main and process_single_pdf as a state machine
\* ------------------------------------------------------------------------

VARIABLES
    script,     \* which of the two scripts runs
    pdf_files,  \* the documents main found, in the order of its loop
    idx,        \* the position of the loop in pdf_files
    pc,         \* the next step of main / process_single_pdf
    lines,      \* locals of process_single_pdf
    profile,
    title,
    headings,
    outline,
    result,     \* what process_single_pdf returned
    output,     \* the records written so far, one per output file
    raised,     \* the positions whose processing raised
    calls       \* how many times process_single_pdf ran for each position

vars == <<script, pdf_files, idx, pc, lines, profile, title, headings, outline,
          result, output, raised, calls>>

locals == <<lines, profile, title, headings, outline>>

Stages == {"extract", "title", "headings", "finalize"}

\* main before its loop, for a given script and batch
MainEntry(s, files) ==
    /\ script = s
    /\ pdf_files = files
    /\ idx = 1
    /\ pc = "loop"
    /\ lines = <<>>
    /\ profile = NoProfile
    /\ title = <<>>
    /\ headings = <<>>
    /\ outline = <<>>
    /\ result = EmptyResult
    /\ output = <<>>
    /\ raised = {}
    /\ calls = [i \in DOMAIN files |-> 0]

\* for pdf_file in pdf_files: result = process_single_pdf(pdf_file)
LoopNext ==
    /\ pc = "loop"
    /\ idx <= Len(pdf_files)
    /\ pc' = "extract"
    /\ calls' = [calls EXCEPT ![idx] = @ + 1]
    /\ lines' = <<>>
    /\ profile' = NoProfile
    /\ title' = <<>>
    /\ headings' = <<>>
    /\ outline' = <<>>
    /\ UNCHANGED <<script, pdf_files, idx, result, output, raised>>

\* lines, profile = extract_and_group_lines(str(pdf_path))
ExtractAndGroupLines ==
    /\ pc = "extract"
    /\ LET r == extract_and_group_lines(script, pdf_files[idx])
       IN  /\ lines' = r.lines
           /\ profile' = r.profile
    /\ pc' = "title"
    /\ UNCHANGED <<script, pdf_files, idx, title, headings, outline, result, output,
                   raised, calls>>

\* title = extract_title(lines)
ExtractTitle ==
    /\ pc = "title"
    /\ title' = extract_title(script, lines)
    /\ pc' = "headings"
    /\ UNCHANGED <<script, pdf_files, idx, lines, profile, headings, outline, result,
                   output, raised, calls>>

\* headings = find_headings(lines, profile)
FindHeadings ==
    /\ pc = "headings"
    /\ headings' = find_headings(script, lines, profile)
    /\ pc' = "finalize"
    /\ UNCHANGED <<script, pdf_files, idx, lines, profile, title, outline, result,
                   output, raised, calls>>

\* outline = finalize_outline(headings, profile)
FinalizeOutline ==
    /\ pc = "finalize"
    /\ outline' = finalize_outline(script, headings, profile)
    /\ pc' = "return"
    /\ UNCHANGED <<script, pdf_files, idx, lines, profile, title, headings, result,
                   output, raised, calls>>

\* return {"title": title.strip() + "  ", "outline": outline}
Return ==
    /\ pc = "return"
    /\ result' = SuccessResult(title, outline)
    /\ pc' = "write"
    /\ UNCHANGED <<script, pdf_files, idx, locals, output, raised, calls>>

\* a stage raises and nothing catches it: main ends at that file
RaiseUncaught ==
    /\ pc \in Stages
    /\ raised' = raised \cup {idx}
    /\ pc' = "done"
    /\ UNCHANGED <<script, pdf_files, idx, locals, result, output, calls>>

\* a stage raises: except Exception returns {"title": "", "outline": []}
Raise ==
    /\ pc \in Stages
    /\ raised' = raised \cup {idx}
    /\ result' = EmptyResult
    /\ pc' = "write"
    /\ lines' = <<>>
    /\ profile' = NoProfile
    /\ title' = <<>>
    /\ headings' = <<>>
    /\ outline' = <<>>
    /\ UNCHANGED <<script, pdf_files, idx, output, calls>>

\* json.dump(result, f, ...), and on to the next file
WriteOutput ==
    /\ pc = "write"
    /\ output' = Append(output, result)
    /\ idx' = idx + 1
    /\ pc' = "loop"
    /\ UNCHANGED <<script, pdf_files, locals, result, raised, calls>>

\* the loop is over (or there was no file at all): main returns
Finish ==
    /\ pc = "loop"
    /\ idx > Len(pdf_files)
    /\ pc' = "done"
    /\ UNCHANGED <<script, pdf_files, idx, locals, result, output, raised, calls>>

Next ==
    \/ LoopNext
    \/ ExtractAndGroupLines
    \/ ExtractTitle
    \/ FindHeadings
    \/ FinalizeOutline
    \/ Return
    \/ Raise
    \/ WriteOutput
    \/ Finish

\* ------------------------------------------------------------------------
\* Inputs: documents
\* ------------------------------------------------------------------------

\* the number of dot-separated segments of the numberings tried
MaxSegments == 4

\* the number of lines tried on the first page (the thresholds are 5 and 10)
MaxFirstPageLines == 11

\* the number of pages of a document
MaxPages == 2

\* the number of documents of a batch
MaxDocs == 2

\* the number of headings handed to finalize_outline
MaxHeadings == 3

\* one parser line with a single span
RawLine(text, size, bold, page, x0, y0) ==
    [page |-> page,
     bbox |-> <<x0, y0, x0 + 200, y0 + 12>>,
     spans |-> <<[text |-> text, size |-> size, bold |-> bold, x0 |-> x0]>>]

Segments == {<<"1">>, <<"2", "0">>}

RECURSIVE Numberings(_)
Numberings(n) ==
    IF n = 1 THEN Segments
    ELSE {a \o <<".">> \o b : a \in Numberings(n - 1), b \in Segments}

NumberTails ==
    {<<".", " ", "A", "b">>,
     <<" ", "A", "b">>,
     <<" ", "A", "b", " ", ".", ".", ".", ".", " ", "3">>}

NumberedTexts ==
    UNION {{n \o t : n \in Numberings(k), t \in NumberTails} : k \in 1..MaxSegments}

\* texts that match 'page N of M' whatever the case
FooterTexts ==
    {<<"P", "a", "g", "e", " ", "3", " ", "o", "f", " ", "1", "0">>,
     <<"p", "a", "g", "e", " ", "3", " ", "o", "f", " ", "1", "0">>,
     <<"P", "A", "G", "E", " ", "3", " ", "O", "F", " ", "1", "0">>,
     <<"P", "a", "g", "e", " ", " ", "3", "TAB", "o", "f", " ", "1", "0">>,
     <<"P", "a", "g", "e", " ", "3", " ", "o", "f", " ", "1", "0", " ", "D", "r", "a", "f", "t">>}

OtherTexts ==
    {<<"U+FF11", ".", " ", "A", "b">>,
     <<"U+0967", "U+3001", " ", "A", "b">>,
     <<"U+0663", ".", " ", "A", "b">>,
     <<"U+FF11", ".", "U+FF12", " ", "A", "b">>,
     <<"1", "U+FF0E", "A", "b">>,
     <<"C", "h", "a", "p", "t", "e", "r", " ", "1">>,
     <<"S", "e", "c", "t", "i", "o", "n", " ", "2", " ", "A", "b">>,
     <<"U+7B2C", "1", "U+7AE0">>,
     <<"T", "i", "t", "l", "e">>,
     <<"A", "b">>,
     <<"1", "8", " ", "J", "U", "N", " ", "2", "0", "2", "4">>,
     <<"1", ".", "0", " ", "1", "8", " ", "J", "U", "N">>,
     <<"P", "a", "g", "e", " ", "t", "h", "r", "e", "e">>,
     <<"S", "e", "e", " ", "P", "a", "g", "e", " ", "3", " ", "o", "f", " ", "1", "0">>,
     <<"r", "e", "f", "e", "r", "e", "n", "c", "e", "s">>,
     <<"R", "e", "f", "e", "r", "e", "n", "c", "e", "s", ":">>,
     <<"C", "o", "n", "t", "e", "n", "t", "s", " ", ".", ".", ".", ".", " ", "2">>}

BodyText == <<"T", "h", "i", "s", " ", "i", "s", " ", "t", "h", "e", " ", "b", "o", "d", "y", " ", "t", "e", "x", "t", " ", "o", "f", " ", "i", "t", ".">>

ClassifyTexts == NumberedTexts \cup special_h1s \cup FooterTexts \cup OtherTexts

Sizes == {100, 110, 180}

Lefts == {72, 86, 87}

BodyLine == RawLine(BodyText, 110, FALSE, 0, 100, 700)

\* a one-page document with one line to classify, alone or above a line of
\* body text that sets the baseline size and the left margin
ClassifyDocs ==
    {[page_count |-> 1,
      raw |-> <<RawLine(t, sz, b, 0, x, 100)>> \o (IF body THEN <<BodyLine>> ELSE <<>>)] :
        t \in ClassifyTexts, sz \in Sizes, b \in BOOLEAN, x \in Lefts, body \in BOOLEAN}

\* the decimal digits of n < 100
Decimal(n) ==
    LET d == <<"0", "1", "2", "3", "4", "5", "6", "7", "8", "9">>
    IN  IF n < 10 THEN <<d[n + 1]>> ELSE <<d[(n \div 10) + 1], d[(n % 10) + 1]>>

\* n numbered heading lines "1. Ab", "2. Ab", ... on one page
PageOfLines(page, n) ==
    [i \in 1..n |-> RawLine(Decimal(i) \o <<".", " ", "A", "b">>, 180, TRUE, page, 72, 50 * i)]

\* documents with 0..MaxFirstPageLines lines on the first page
ProfileDocs ==
    UNION {{[page_count |-> pages, raw |-> PageOfLines(0, n0) \o PageOfLines(1, n1)] :
              n0 \in 0..MaxFirstPageLines,
              n1 \in {k \in 0..1 : k < pages}} : pages \in 1..MaxPages}

EmptyDoc == [page_count |-> 1, raw |-> <<>>]

\* a title in two spans given right to left, a heading split over two parser
\* lines at the same height, and a whitespace-only line
SpansDoc ==
    [page_count |-> 2,
     raw |-> <<[page |-> 0, bbox |-> <<72, 40, 400, 60>>,
                spans |-> <<[text |-> <<"G", "u", "i", "d", "e">>, size |-> 240, bold |-> TRUE, x0 |-> 200],
                            [text |-> <<"U", "s", "e", "r", " ">>, size |-> 240, bold |-> TRUE, x0 |-> 72]>>],
               [page |-> 0, bbox |-> <<72, 500, 400, 512>>,
                spans |-> <<[text |-> <<" ", "TAB">>, size |-> 100, bold |-> FALSE, x0 |-> 72]>>],
               [page |-> 1, bbox |-> <<72, 100, 90, 112>>,
                spans |-> <<[text |-> <<"1", ".">>, size |-> 180, bold |-> TRUE, x0 |-> 72]>>],
               [page |-> 1, bbox |-> <<95, 100, 300, 112>>,
                spans |-> <<[text |-> <<" ", "S", "c", "o", "p", "e">>, size |-> 180, bold |-> FALSE, x0 |-> 95]>>],
               RawLine(<<"R", "e", "f", "e", "r", "e", "n", "c", "e", "s">>, 180, TRUE, 1, 72, 300)>>]

BatchDocs == {EmptyDoc, SpansDoc, [page_count |-> 1, raw |-> PageOfLines(0, 2)]}

RECURSIVE SeqsUpTo(_, _)
SeqsUpTo(S, n) ==
    IF n = 0 THEN {<<>>}
    ELSE SeqsUpTo(S, n - 1) \cup
         {Append(q, x) : q \in {r \in SeqsUpTo(S, n - 1) : Len(r) = n - 1}, x \in S}

Batches == SeqsUpTo(BatchDocs, MaxDocs)

\* ------------------------------------------------------------------------
\* Inputs: headings for finalize_outline
\* ------------------------------------------------------------------------

FinalizeTexts ==
    {<<"3", ".", " ", "O", "v", "e", "r", "v", "i", "e", "w">>,
     <<"S", "y", "l", "l", "a", "b", "u", "s">>,
     <<"S", "Y", "L", "L", "A", "B", "U", "S">>,
     <<"3", ".", " ", " ", "O", "v", "e", "r", "v", "i", "e", "w", "TAB", "S", "y", "l", "l", "a", "b", "u", "s">>,
     <<"1", "0", ".", " ", "S", "c", "o", "p", "e">>}

Pages == {0, 1}

Levels == <<"H1", "H2", "H3">>

\* n headings in reading order: heading i at height 100 * i, pages going up
HeadingsInOrder(texts, pages) ==
    [i \in DOMAIN texts |->
        [text |-> texts[i], font_size |-> 180, is_bold |-> TRUE, page |-> pages[i],
         bbox |-> <<72, 100 * i, 272, 100 * i + 12>>,
         level |-> Levels[((i - 1) % 3) + 1]]]

Reversed(seq) == [i \in DOMAIN seq |-> seq[Len(seq) + 1 - i]]

HeadingLists ==
    UNION {{IF rev THEN Reversed(HeadingsInOrder(texts, pages)) ELSE HeadingsInOrder(texts, pages) :
              texts \in [1..n -> FinalizeTexts],
              pages \in {f \in [1..n -> Pages] : \A i \in 1..(n - 1) : f[i] <= f[i + 1]},
              rev \in BOOLEAN} : n \in 0..MaxHeadings}

Profiles ==
    {[baseline_font_size |-> 120, page_offset |-> o, left_margin |-> 72] : o \in {0, 1}}

\* ------------------------------------------------------------------------
\* Specifications
\* ------------------------------------------------------------------------

\* one document with one line to classify
InitClassify == \E s \in Scripts, d \in ClassifyDocs : MainEntry(s, <<d>>)

\* one document with a first page of a given number of lines
InitProfile == \E s \in Scripts, d \in ProfileDocs : MainEntry(s, <<d>>)

\* a batch of documents
InitBatch == \E s \in Scripts, files \in Batches : MainEntry(s, files)

\* finalize_outline on its own: process_single_pdf about to call it
InitFinalize ==
    \E s \in Scripts, hs \in HeadingLists, prof \in Profiles :
        /\ script = s
        /\ pdf_files = <<EmptyDoc>>
        /\ idx = 1
        /\ pc = "finalize"
        /\ lines = <<>>
        /\ profile = prof
        /\ title = <<>>
        /\ headings = hs
        /\ outline = <<>>
        /\ result = EmptyResult
        /\ output = <<>>
        /\ raised = {}
        /\ calls = <<1>>

Init == InitClassify \/ InitProfile \/ InitBatch

Spec == Init /\ [][Next]_vars

SpecClassify == InitClassify /\ [][Next]_vars

SpecProfile == InitProfile /\ [][Next]_vars

SpecBatch == InitBatch /\ [][Next]_vars

NextFinalize == FinalizeOutline

SpecFinalize == InitFinalize /\ [][NextFinalize]_vars

\* ------------------------------------------------------------------------
\* Inputs: numbered and plain headings for the merge loop of finalize_outline
\* ------------------------------------------------------------------------

\* '3. Overview', 'Syllabus', '2 Scope', '10. Scope', '2.1 Audience'
MergeTexts ==
    {<<"3", ".", " ", "O", "v", "e", "r", "v", "i", "e", "w">>,
     <<"S", "y", "l", "l", "a", "b", "u", "s">>,
     <<"2", " ", "S", "c", "o", "p", "e">>,
     <<"1", "0", ".", " ", "S", "c", "o", "p", "e">>,
     <<"2", ".", "1", " ", "A", "u", "d", "i", "e", "n", "c", "e">>}

MergeHeadingLists ==
    UNION {{IF rev THEN Reversed(HeadingsInOrder(texts, pages)) ELSE HeadingsInOrder(texts, pages) :
              texts \in [1..n -> MergeTexts],
              pages \in {f \in [1..n -> Pages] : \A i \in 1..(n - 1) : f[i] <= f[i + 1]},
              rev \in BOOLEAN} : n \in 0..MaxHeadings}

\* finalize_outline on its own, on numbered and plain headings
InitMerge ==
    \E s \in Scripts, hs \in MergeHeadingLists, prof \in Profiles :
        /\ script = s
        /\ pdf_files = <<EmptyDoc>>
        /\ idx = 1
        /\ pc = "finalize"
        /\ lines = <<>>
        /\ profile = prof
        /\ title = <<>>
        /\ headings = hs
        /\ outline = <<>>
        /\ result = EmptyResult
        /\ output = <<>>
        /\ raised = {}
        /\ calls = <<1>>

SpecMerge == InitMerge /\ [][NextFinalize]_vars

\* ------------------------------------------------------------------------
\* Properties of find_headings (checked under SpecClassify)
\* ------------------------------------------------------------------------

\* find_headings has run on the current document
Classified == pc \in {"finalize", "return"}

\* the levels find_headings gave to a line
LevelsGiven(line) ==
    {headings[i].level : i \in {j \in DOMAIN headings :
        /\ headings[j].text = line.text
        /\ headings[j].page = line.page
        /\ headings[j].bbox = line.bbox}}

\* the text starts with a numbering of k segments of digits, followed by
\* `after` and then by something more
StartsWithNumbering(text, k, after) ==
    \E n \in Numberings(k) :
        /\ LiteralAt(text, 1, n \o after)
        /\ Len(text) > Len(n \o after)

\* the line is past the negative filters of the running script and, where the
\* script has the positional gate, within 15pt of the left margin
PastFiltersAtMargin(line) ==
    IF script = "process_pdfs"
    THEN ~NegativeFilter(line.text) /\ WithinMargin(line, profile.left_margin)
    ELSE ~IsNoise(Strip(line.text))

\* C1: every line that is past the negative filters (and at the margin where
\* that gate exists) is classified H1 when its text is 'N. <text>', H2 when it
\* is 'N.M <text>', H3 when it is 'N.M.K <text>', and gets no level from the
\* structural numbering rule when its numbering has four or more segments.
NumberingDepthLaw ==
    Classified =>
        \A i \in DOMAIN lines :
            LET line == lines[i]
            IN  PastFiltersAtMargin(line) =>
                  /\ StartsWithNumbering(line.text, 1, <<".", " ">>) => LevelsGiven(line) = {"H1"}
                  /\ StartsWithNumbering(line.text, 2, <<" ">>) => LevelsGiven(line) = {"H2"}
                  /\ StartsWithNumbering(line.text, 3, <<" ">>) => LevelsGiven(line) = {"H3"}
                  /\ (\E k \in 4..MaxSegments : StartsWithNumbering(line.text, k, <<" ">>)) =>
                        IF script = "process_pdfs"
                        THEN LevelsGiven(line) = {}
                        ELSE LevelsGiven(line) =
                                IF FormatFallback(Strip(line.text), line, profile.baseline_font_size)
                                THEN {"H2"} ELSE {}

\* the same law for process_pdfs.py alone
NumberingDepthLawGated == script = "process_pdfs" => NumberingDepthLaw

\* the law without its first case, 'N. <text>'
NumberingDepthLawFromTwo ==
    Classified =>
        \A i \in DOMAIN lines :
            LET line == lines[i]
            IN  PastFiltersAtMargin(line) =>
                  /\ StartsWithNumbering(line.text, 2, <<" ">>) => LevelsGiven(line) = {"H2"}
                  /\ StartsWithNumbering(line.text, 3, <<" ">>) => LevelsGiven(line) = {"H3"}

\* a run of four dots somewhere in the text
LeaderDotted(text) ==
    \E i \in 1..(Len(text) - 3) : \A k \in 0..3 : text[i + k] = "."

\* C7: a line whose text contains a run of leader dots is never classified as
\* a heading, whatever its numbering, font size, boldness or left position.
LeaderDotsNeverHeading ==
    \A i \in DOMAIN headings : ~LeaderDotted(headings[i].text)

\* C8: a line whose text matches 'page N of M', in any case, is never
\* classified as a heading, for every font size, bold flag and left position.
PageFooterNeverHeading ==
    \A i \in DOMAIN headings : headings[i].text \notin FooterTexts

\* a large, bold, short footer line has been classified by
\* outline_extractor.py, whose format rule alone would make it H2
PageFooterWitness ==
    /\ script = "outline_extractor"
    /\ Classified
    /\ \E i \in DOMAIN lines :
          /\ lines[i].text \in FooterTexts
          /\ lines[i].is_bold
          /\ 10 * lines[i].font_size > 14 * profile.baseline_font_size
          /\ LevelsGiven(lines[i]) = {}

References == <<"R", "e", "f", "e", "r", "e", "n", "c", "e", "s">>

\* the style gate of the keyword rule
BoldOrOversize(line) == line.is_bold \/ line.font_size > profile.baseline_font_size

\* C9: in process_pdfs.py a line that is exactly a section keyword is H1 if
\* and only if it is bold or larger than the baseline size (otherwise it is no
\* heading); in outline_extractor.py a line that is exactly 'References' (or
\* another of its keywords) is H1 whatever its style.
KeywordGating ==
    Classified =>
        \A i \in DOMAIN lines :
            LET line == lines[i]
            IN  /\ (script = "process_pdfs" /\ line.text \in special_h1s) =>
                      LevelsGiven(line) = IF BoldOrOversize(line) THEN {"H1"} ELSE {}
                /\ (script = "outline_extractor" /\ line.text \in strong_H1s) =>
                      LevelsGiven(line) = {"H1"}

\* 'References' at baseline size and not bold: no heading in process_pdfs.py
KeywordGatingWitness ==
    /\ script = "process_pdfs"
    /\ Classified
    /\ \E i \in DOMAIN lines :
          /\ lines[i].text = References
          /\ ~lines[i].is_bold
          /\ lines[i].font_size = profile.baseline_font_size
          /\ LevelsGiven(lines[i]) = {}

\* the same line in outline_extractor.py: H1
KeywordUngatedWitness ==
    /\ script = "outline_extractor"
    /\ Classified
    /\ \E i \in DOMAIN lines :
          /\ lines[i].text = References
          /\ ~lines[i].is_bold
          /\ lines[i].font_size < profile.baseline_font_size
          /\ LevelsGiven(lines[i]) = {"H1"}

\* ------------------------------------------------------------------------
\* Properties of the profile and of process_single_pdf (checked under
\* SpecProfile)
\* ------------------------------------------------------------------------

\* extract_and_group_lines has run on the current document
Profiled == pc \in {"title", "headings", "finalize", "return"}

\* the line-count threshold of the running script
CoverThreshold == IF script = "process_pdfs" THEN 10 ELSE 5

FirstPageLineCount == Cardinality({i \in DOMAIN lines : lines[i].page = 0})

\* C6: page_offset is 1 exactly when the first page has fewer logical lines
\* than the threshold and the document has more than one page, else 0; a
\* single-page document and an empty document get page_offset = 0.
CoverPageDetection ==
    Profiled =>
        profile.page_offset =
            IF FirstPageLineCount < CoverThreshold /\ pdf_files[idx].page_count > 1
            THEN 1 ELSE 0

\* the same for process_pdfs.py alone
CoverPageDetectionGated == script = "process_pdfs" => CoverPageDetection

\* C3: when the document has no logical line, process_single_pdf returns the
\* title "" and the outline [], and no stage raises.
EmptyDocumentResult ==
    (pc = "write" /\ idx \notin raised /\ pdf_files[idx].raw = <<>>) =>
        result = [title |-> <<>>, outline |-> <<>>]

\* the part of C3 that holds: the outline of an empty document is []
EmptyDocumentOutline ==
    (pc = "write" /\ idx \notin raised /\ pdf_files[idx].raw = <<>>) =>
        result.outline = <<>>

\* C4: every outline entry carries the page p + 1 - page_offset of a heading
\* on raw page p, and that page is at least 1, also when page_offset = 1 and
\* the heading lies on the first page.
OneBasedPages ==
    pc = "return" =>
        \A i \in DOMAIN outline :
            /\ \E j \in DOMAIN headings :
                  outline[i].page = headings[j].page + 1 - profile.page_offset
            /\ outline[i].page >= 1

\* the part of C4 that holds: the page formula
OffsetCorrectedPages ==
    pc = "return" =>
        \A i \in DOMAIN outline :
            \E j \in DOMAIN headings :
                outline[i].page = headings[j].page + 1 - profile.page_offset

\* C4 for process_pdfs.py alone
OneBasedPagesGated == script = "process_pdfs" => OneBasedPages

\* ------------------------------------------------------------------------
\* Properties of finalize_outline (checked under SpecFinalize)
\* ------------------------------------------------------------------------

Overview == <<"3", ".", " ", "O", "v", "e", "r", "v", "i", "e", "w">>

Syllabus == <<"S", "y", "l", "l", "a", "b", "u", "s">>

\* the two headings of scenario B, alone: '3. Overview' above 'Syllabus' on
\* one page
ScenarioB ==
    /\ Len(headings) = 2
    /\ \E i, j \in DOMAIN headings :
          /\ headings[i].text = Overview
          /\ headings[j].text = Syllabus
          /\ headings[i].page = headings[j].page
          /\ headings[i].bbox[2] < headings[j].bbox[2]

\* C2: '3. Overview' followed on the same page by 'Syllabus' gives exactly one
\* entry, with the text '3. Overview Syllabus' (one space between the parts,
\* then the trailing space) and the level and page of the first heading; no
\* entry is emitted for 'Syllabus'.
ContinuationMerge ==
    (pc = "return" /\ ScenarioB) =>
        \E i \in DOMAIN headings :
            /\ headings[i].text = Overview
            /\ outline = <<[level |-> headings[i].level,
                            text |-> Overview \o <<" ">> \o Syllabus \o <<" ">>,
                            page |-> headings[i].page + 1 - profile.page_offset]>>

\* C2 for process_pdfs.py alone
ContinuationMergeGated == script = "process_pdfs" => ContinuationMerge

\* the key under which an outline entry was deduplicated
EntryKey(entry) == <<Lower(CleanText(entry.text)), entry.page>>

\* the headings after the continuation merge, in sorted order
MergedHeadings ==
    IF script = "process_pdfs" THEN merged_headings_pp(headings)
    ELSE merged_headings_oe(headings)

\* a comes before b in (page, vertical position) order
Before(a, b) ==
    \/ a.page < b.page
    \/ a.page = b.page /\ a.bbox[2] < b.bbox[2]

\* C5: the outline never holds two entries with the same (lowercased,
\* whitespace-normalized text, final page) key, and the headings that share a
\* key after merging give exactly one entry, with the level of the first of
\* them in (page, vertical position) order.
DedupLaw ==
    pc = "return" =>
        LET merged == MergedHeadings
            keys == [m \in DOMAIN merged |-> DedupKey(merged[m], profile.page_offset)]
            emitted == [i \in DOMAIN outline |-> EntryKey(outline[i])]
        IN  /\ \A i, j \in DOMAIN outline : emitted[i] = emitted[j] => i = j
            /\ \A m \in DOMAIN merged :
                  LET same == {n \in DOMAIN merged : keys[n] = keys[m]}
                      first == CHOOSE n \in same :
                                  \A q \in same \ {n} : Before(merged[n], merged[q])
                  IN  /\ Cardinality({i \in DOMAIN outline : emitted[i] = keys[m]}) = 1
                      /\ \E i \in DOMAIN outline :
                            /\ emitted[i] = keys[m]
                            /\ outline[i].level = merged[first].level

\* two headings with one key and different levels were collapsed, the later
\* one being first in the list finalize_outline was given
DedupWitness ==
    /\ pc = "return"
    /\ Len(outline) < Len(MergedHeadings)
    /\ \E a, b \in DOMAIN headings :
          /\ a < b
          /\ Before(headings[b], headings[a])
          /\ headings[a].level # headings[b].level
          /\ headings[a].text # headings[b].text
          /\ DedupKey(headings[a], profile.page_offset) = DedupKey(headings[b], profile.page_offset)
          /\ \E i \in DOMAIN outline :
                /\ EntryKey(outline[i]) = DedupKey(headings[b], profile.page_offset)
                /\ outline[i].level = headings[b].level

\* ------------------------------------------------------------------------
\* Properties of the merge loop of finalize_outline (checked under SpecMerge)
\* ------------------------------------------------------------------------

\* the text starts with a section number: its first character is a digit
StartsWithSectionNumber(text) == text # <<>> /\ text[1] \in UnicodeDigits

\* the headings in the order the merge loop scans them
SortedHeadings == SortHeadings(headings)

\* the heading at position k of the scan is not an entry of its own after
\* the merge (the headings of a list are told apart by page and position)
Absorbed(merged, sorted, k) ==
    \A m \in DOMAIN merged :
        merged[m].page # sorted[k].page \/ merged[m].bbox # sorted[k].bbox

\* no heading that starts with a section number is absorbed
NumberedNeverAbsorbed ==
    pc = "return" =>
        LET merged == MergedHeadings
            sorted == SortedHeadings
        IN  \A k \in DOMAIN sorted :
                StartsWithSectionNumber(sorted[k].text) => ~Absorbed(merged, sorted, k)

\* a heading absorbs at most one following heading: the first heading is
\* never absorbed, no two neighbours are both absorbed, and the text of a
\* merged entry is that of its heading alone or of two neighbours
AbsorbsAtMostOne ==
    pc = "return" =>
        LET merged == MergedHeadings
            sorted == SortedHeadings
        IN  /\ \A k \in DOMAIN sorted :
                  Absorbed(merged, sorted, k) =>
                      /\ k > 1
                      /\ ~Absorbed(merged, sorted, k - 1)
                      /\ sorted[k - 1].page = sorted[k].page
            /\ \A m \in DOMAIN merged :
                  \E k \in DOMAIN sorted :
                      /\ merged[m].page = sorted[k].page
                      /\ merged[m].bbox = sorted[k].bbox
                      /\ merged[m].level = sorted[k].level
                      /\ \/ merged[m].text = sorted[k].text
                         \/ /\ k + 1 \in DOMAIN sorted
                            /\ Absorbed(merged, sorted, k + 1)
                            /\ merged[m].text \in
                                  {MergedText_pp(sorted[k], sorted[k + 1]),
                                   MergedText_oe(sorted[k], sorted[k + 1])}

\* C11: in finalize_outline of both scripts, a heading whose text starts
\* with a section number (any number of digits) is never concatenated onto
\* the preceding heading and dropped; only a following heading that is not
\* numbered is absorbed, and each heading absorbs at most one following
\* heading.
MergeKeepsNumberedHeadings == NumberedNeverAbsorbed /\ AbsorbsAtMostOne

\* the first half of C11 for each script alone
NumberedNeverAbsorbed_pp == script = "process_pdfs" => NumberedNeverAbsorbed

NumberedNeverAbsorbed_oe == script = "outline_extractor" => NumberedNeverAbsorbed

\* a numbered heading after a numbered stub on one page survives as an entry
\* of its own, and somewhere a plain heading was absorbed
NumberedKeptWitness ==
    /\ pc = "return"
    /\ \E k \in DOMAIN SortedHeadings :
          /\ k > 1
          /\ SortedHeadings[k - 1].page = SortedHeadings[k].page
          /\ StartsWithSectionNumber(SortedHeadings[k - 1].text)
          /\ StartsWithSectionNumber(SortedHeadings[k].text)
          /\ ~Absorbed(MergedHeadings, SortedHeadings, k)
          /\ ~Absorbed(MergedHeadings, SortedHeadings, k - 1)
    /\ \E k \in DOMAIN SortedHeadings : Absorbed(MergedHeadings, SortedHeadings, k)

\* ------------------------------------------------------------------------
\* Properties of main (checked under SpecBatch)
\* ------------------------------------------------------------------------

\* what process_single_pdf returns for a document when no stage raises
ProcessedResult(s, doc) ==
    LET r == extract_and_group_lines(s, doc)
    IN  SuccessResult(extract_title(s, r.lines),
                      finalize_outline(s, find_headings(s, r.lines, r.profile), r.profile))

\* what main has written and how often it has processed each document: the
\* documents that raised have the empty record, the others their own result,
\* none was processed twice, and at the end all have been written
BatchResults ==
    /\ \A i \in DOMAIN output :
          output[i] = IF i \in raised THEN EmptyResult
                      ELSE ProcessedResult(script, pdf_files[i])
    /\ \A i \in DOMAIN pdf_files : calls[i] <= 1
    /\ raised \subseteq DOMAIN pdf_files
    /\ pc = "done" =>
          /\ Len(output) = Len(pdf_files)
          /\ \A i \in DOMAIN pdf_files : calls[i] = 1

\* how far main has come: the position of the loop, then the step within
\* the current document
StepRank ==
    [p \in {"loop", "extract", "title", "headings", "finalize", "return", "write", "done"} |->
        CASE p = "loop" -> 0
          [] p = "done" -> 1
          [] p = "extract" -> 2
          [] p = "title" -> 3
          [] p = "headings" -> 4
          [] p = "finalize" -> 5
          [] p = "return" -> 6
          [] p = "write" -> 7]

Position == 8 * idx + StepRank[pc]

\* main has returned, or the guard of one of its steps holds
DoneOrCanStep ==
    \/ pc = "done"
    \/ pc = "loop"
    \/ pc \in Stages /\ idx \in DOMAIN pdf_files
    \/ pc \in {"return", "write"}

\* C10: whatever subset of the documents raises inside a pipeline stage, each
\* of them gets exactly {"title": "", "outline": []}, every other document
\* gets its own result written, no document is processed twice, and the loop
\* reaches the end of the batch: main is never stuck before its end and every
\* step takes it further.
BatchFaultIsolation ==
    /\ [](BatchResults /\ DoneOrCanStep)
    /\ [][Position' > Position]_vars

\* a batch of two whose first document raised and whose second was processed
\* to a result of its own
BatchFaultWitness ==
    /\ pc = "done"
    /\ Len(pdf_files) >= 2
    /\ 1 \in raised
    /\ 2 \notin raised
    /\ Len(output) = Len(pdf_files)
    /\ output[1] = EmptyResult
    /\ output[2].outline # <<>>

=============================================================================
